---- MODULE Spec2Model ----
(***************************************************************************)
(* Model of zhankai.  Spec is the query pipeline: apiUtils.sendQueryToRukh  *)
(* with its retry loop, apiUtils.processResponseForFileUpdates and         *)
(* apiUtils.updateFile (src/src/utils/api.ts).  SpecFile is                *)
(* fileUtils.processFile, SpecRun the generation of the document by        *)
(* runZhankai (traverseDirectory, generateFileStructure), SpecUnique is    *)
(* fileUtils.getUniqueFilename and SpecSetup is setupOutputDirectory with  *)
(* gitUtils.addToGitignore.  SpecLoop is sendQueryToRukh up to the end of  *)
(* its attempt loop, under fairness; SpecAsk is a whole run of runZhankai  *)
(* with handleQuery and sendQueryToRukh; SpecUpdate is apiUtils.updateFile *)
(* called on its own.                                                      *)
(*                                                                         *)
(* Strings the code builds are sequences of string tokens, so that         *)
(* "starts with" and "contains" are checkable.  File names are sequences   *)
(* of path segments; the empty string is the empty sequence.               *)
(***************************************************************************)
EXTENDS Integers, Sequences, FiniteSets, TLC

\* ---------------------------------------------------------------- bounds
MaxSpecs == 2

\* ------------------------------------------------------ program constants
MAX_RETRIES == 5

\* A property that is absent from a parsed JSON object (JS undefined).
Undefined == "<undefined>"
UndefinedName == <<Undefined>>
\* No file at a path.
NoFile == "<nofile>"

\* process.cwd()
Cwd == <<"repo">>

\* ------------------------------------------------------------ path module
\* path.join normalises the joined path: an empty segment (the one in front
\* of a leading "/", or between two "/") and a "." segment are dropped, and
\* a ".." segment removes the segment before it.
RECURSIVE Normalize(_, _)
Normalize(segs, acc) ==
    IF segs = <<>> THEN acc
    ELSE IF Head(segs) \in {"", "."}
         THEN Normalize(Tail(segs), acc)
    ELSE IF Head(segs) = ".."
         THEN Normalize(Tail(segs),
                        IF acc = <<>> THEN acc ELSE SubSeq(acc, 1, Len(acc) - 1))
         ELSE Normalize(Tail(segs), Append(acc, Head(segs)))

PathJoin(base, name) == Normalize(base \o name, <<>>)

PathDirname(p) == IF p = <<>> THEN <<>> ELSE SubSeq(p, 1, Len(p) - 1)

\* ------------------------------------------------------------ input pools
MkSpec(n, c) == [fileName |-> n, fileContent |-> c]

SpecPool == { MkSpec(<<"f1">>, "x"), MkSpec(<<"f1">>, "y"),
              MkSpec(<<"d", "f2">>, "x"),
              MkSpec(UndefinedName, "x"), MkSpec(<<"f1">>, Undefined),
              MkSpec(<<>>, "x"), MkSpec(<<"f1">>, "") }

SpecLists == UNION { [1..n -> SpecPool] : n \in 0..MaxSpecs }

\* Paths of the regular files the model tracks.
FilePaths == {PathJoin(Cwd, <<"f1">>), PathJoin(Cwd, <<"d", "f2">>)}
InitFiles == [p \in FilePaths |-> IF p = PathJoin(Cwd, <<"f1">>) THEN "old" ELSE NoFile]

\* HTTP outcomes of one fetch; NetworkError is a rejected fetch (network
\* failure or the abort raised by the per-attempt timeout).
NetworkError == -1
Statuses == {200, 400, 401, 403, 404, 429, 500, 502, 503, 504}
Outcomes == Statuses \cup {NetworkError}

\* response.ok
ResponseOk(status) == status >= 200 /\ status <= 299

\* Shapes of the free-text fields output / answer of a RukhResponse:
\*   absent    the property is missing
\*   empty     ""
\*   prose     text that is not JSON and holds no file-spec array literal
\*   embedded  prose around a JSON array literal of the response's specs
\*   array     the whole text is the JSON array of the response's specs
\*   jsonOther valid JSON that is not an array
TextKinds == {"absent", "empty", "prose", "embedded", "array", "jsonOther"}
FtuKinds == {"absent", "emptyList", "list"}

NoBody == [json |-> "unread", ftu |-> "absent", output |-> "absent",
           answer |-> "absent", specs |-> <<>>]
NotJsonBody == [json |-> "invalid", ftu |-> "absent", output |-> "absent",
                answer |-> "absent", specs |-> <<>>]
AnswerKinds == {"absent", "prose", "embedded"}
\* The parsed responses.  specs is the one list of file specs the response
\* carries: as its filesToUpdate list, as the array literal of an embedded
\* or array text, or in several of these places at once.  A response that
\* carries the list nowhere has specs = <<>>.
JsonBodies ==
    { b \in [json : {"object"}, ftu : FtuKinds, output : TextKinds,
             answer : AnswerKinds, specs : SpecLists] :
        IF b.specs = <<>>
        THEN b.ftu # "list"
        ELSE b.ftu = "list" \/ b.output \in {"embedded", "array"} \/ b.answer = "embedded" }
Bodies == JsonBodies \cup {NotJsonBody}

\* A text value: which field it came from and its shape.
Text(field, kind) == [field |-> field, kind |-> kind]
EmptyString == Text("none", "empty")
NoAnswerFile == Text("none", "nofile")

\* JS truthiness of a string-or-undefined value.
TruthyText(kind) == kind \notin {"absent", "empty"}
TruthyName(n) == n # UndefinedName /\ n # <<>>
TruthyContent(c) == c # Undefined /\ c # ""

\* ---------------------------------------------------------------- strings
FailPrefix == "Failed to get response from Rukh API"
StartsWith(s, tok) == Len(s) >= 1 /\ s[1] = tok
Contains(s, tok) == \E i \in 1..Len(s) : s[i] = tok

AccessMsg == <<"Cannot access file at path: ", "<filePath>">>
ReadMsg == <<"<readFile error>">>
AuthFailedMsg == <<"Authentication failed. Please check your API credentials.">>
NetworkMsg == <<"<fetch error>">>
BodyReadMsg == <<"<response.text error>">>
StatusMsg(status) ==
    <<"API request failed with status ", ToString(status), ": ", "<errorDetails>">>
ConnectMsg(inner) ==
    <<"Failed to connect to API after ", ToString(MAX_RETRIES), " attempts: ">> \o inner
AllFailedMsg == <<"All API request attempts failed">>
ParseMsg == <<"Failed to parse API response as JSON">>
MissingMsg == <<"Missing content in API response">>

\* markdownUtils.formatMarkdownForTerminal: a cosmetic rewrite of the text.
FormatMarkdownForTerminal(content) == <<"<formatted>", content.field, content.kind>>

VARIABLES
    pc,              \* position in sendQueryToRukh
    docAccessible,   \* whether fs.access(filePath) succeeds
    challengeFetched,\* number of SIWE challenge requests issued
    loaderActive,    \* TerminalLoader.isActive of the request loader
    attemptCount,    \* the loop counter
    requests,        \* number of POSTs issued to the API
    delays,          \* number of RETRY_DELAY waits
    lastStatus,      \* outcome of the latest attempt (0 before the first)
    onlyRetryable,   \* every failed attempt so far was a readable 429/5xx
    waitedAfterLast, \* the loop waited RETRY_DELAY after the latest attempt
    responseBody,    \* body of the 2xx response
    rawResponse,     \* content of zhankai/raw_response.txt
    rawSaveError,    \* the write of raw_response.txt failed and was logged
    responseContent, \* the extracted textual answer
    answerFile,      \* content of the answer file saved by this call
    updaterCalled,   \* processResponseForFileUpdates was invoked
    files,           \* contents of the repository files
    dirs,            \* existing directories
    updateLog,       \* updateFile calls and skipped specs, in order
    logs,            \* logger calls of the file updater: <<level, message>>
    result,          \* the string the call resolved to
    \* ---- fileUtils.processFile
    pfPc,            \* position of the processFile call
    pfFile,          \* the file handed to processFile
    pfOut,           \* what the call appended to the output file, in order
    pfReads,         \* fs.readFile calls on the source file
    \* ---- runZhankai: document generation
    runPc,           \* position in runZhankai
    depth,           \* config.depth
    gitignoreRules,  \* the repository's .gitignore: readable or not, its patterns
    listFails,       \* directories whose readdir fails
    statFails,       \* entries whose stat fails
    readFails,       \* files whose readFile fails
    queryGiven,      \* config.query is set
    document,        \* the output file: the chunks written so far, in order
    sentDocument,    \* the document as it was when the query was sent
    runErrors,       \* logger.error calls of the run
    \* ---- setupOutputDirectory / addToGitignore
    zhankaiExists,   \* the zhankai directory exists
    gitignore,       \* .gitignore: whether it exists, and its text
    gitignoreLog,    \* the calls made, each with .gitignore before and after
    \* ---- getUniqueFilename
    uqPc,            \* position in getUniqueFilename
    uqBase,          \* baseFilename
    uqExisting,      \* the paths at which a file exists
    uqFilename,      \* the local variable filename
    uqCounter        \* the local variable counter

queryVars == <<pc, docAccessible, challengeFetched, loaderActive, attemptCount,
               requests, delays, lastStatus, onlyRetryable, waitedAfterLast,
               responseBody, rawResponse, rawSaveError, responseContent,
               answerFile,
               updaterCalled, files, dirs, updateLog, logs, result>>

pfVars == <<pfPc, pfFile, pfOut, pfReads>>
treeVars == <<depth, gitignoreRules, listFails, statFails, readFails, queryGiven>>
runVars == <<runPc, treeVars, document, sentDocument, runErrors>>
setupVars == <<zhankaiExists, gitignore, gitignoreLog>>
uqVars == <<uqPc, uqBase, uqExisting, uqFilename, uqCounter>>

\* The state of the file utilities, which sendQueryToRukh does not touch.
utilVars == <<pfVars, runVars, setupVars, uqVars>>

vars == <<queryVars, utilVars>>

\* A .gitignore that does not exist.
NoGitignore == [exists |-> FALSE, text |-> <<>>]

\* The values the variables of a function hold while another one is modelled.
PfIdle == pfPc = "idle" /\ pfFile = <<>> /\ pfOut = <<>> /\ pfReads = 0
RunIdle ==
    /\ runPc = "idle" /\ depth = 0
    /\ gitignoreRules = [readable |-> FALSE, patterns |-> {}]
    /\ listFails = {} /\ statFails = {} /\ readFails = {}
    /\ queryGiven = FALSE /\ document = <<>> /\ sentDocument = <<>>
    /\ runErrors = 0
SetupIdle == zhankaiExists = FALSE /\ gitignore = NoGitignore /\ gitignoreLog = <<>>
UqIdle ==
    /\ uqPc = "idle" /\ uqBase = <<>> /\ uqExisting = {}
    /\ uqFilename = <<>> /\ uqCounter = 0

loopVars == <<attemptCount, requests, delays, lastStatus, onlyRetryable, waitedAfterLast>>
respVars == <<responseBody, rawResponse, rawSaveError, responseContent, answerFile>>
fsVars == <<files, dirs, updateLog, updaterCalled, logs>>

Init ==
    /\ pc = "validate"
    /\ docAccessible \in BOOLEAN
    /\ challengeFetched = 0
    /\ loaderActive = FALSE
    /\ attemptCount = 0
    /\ requests = 0
    /\ delays = 0
    /\ lastStatus = 0
    /\ onlyRetryable = TRUE
    /\ waitedAfterLast = FALSE
    /\ responseBody = NoBody
    /\ rawResponse = NoBody
    /\ rawSaveError = FALSE
    /\ responseContent = EmptyString
    /\ answerFile = NoAnswerFile
    /\ updaterCalled = FALSE
    /\ files = InitFiles
    /\ dirs = {<<>>, Cwd}
    /\ updateLog = <<>>
    /\ logs = {}
    /\ result = <<>>
    /\ PfIdle /\ RunIdle /\ SetupIdle /\ UqIdle

\* The outer catch returning the bare error message (mutant of CatchAll).
CatchAllBareMessage(msg) == msg

\* The outer catch of sendQueryToRukh: every error becomes a returned string.
CatchAll(msg) == <<FailPrefix, ": ">> \o msg

\* fs.access + fs.readFile, with the access error swallowed instead of
\* rethrown (mutant of Validate).
ValidateSwallowsAccessError ==
    /\ pc = "validate"
    /\ \E readOk \in BOOLEAN :
         IF docAccessible /\ ~readOk
         THEN /\ pc' = "done"
              /\ result' = CatchAll(ReadMsg)
         ELSE /\ pc' = "auth"
              /\ UNCHANGED result
    /\ UNCHANGED <<docAccessible, loaderActive, challengeFetched>>
    /\ UNCHANGED loopVars
    /\ UNCHANGED respVars
    /\ UNCHANGED fsVars
    /\ UNCHANGED utilVars

\* fs.access + fs.readFile.
Validate ==
    /\ pc = "validate"
    /\ \E readOk \in BOOLEAN :
         IF ~docAccessible
         THEN /\ pc' = "done"
              /\ result' = CatchAll(AccessMsg)
         ELSE IF ~readOk
         THEN /\ pc' = "done"
              /\ result' = CatchAll(ReadMsg)
         ELSE /\ pc' = "auth"
              /\ UNCHANGED result
    /\ UNCHANGED <<docAccessible, loaderActive, challengeFetched>>
    /\ UNCHANGED loopVars
    /\ UNCHANGED respVars
    /\ UNCHANGED fsVars
    /\ UNCHANGED utilVars

\* fetchSiweChallenge + signChallengeWithGithubWallet, then the form data and
\* loader.start().  Every authentication failure is swallowed: the request is
\* sent without authentication data.
Authenticate ==
    /\ pc = "auth"
    /\ challengeFetched' = challengeFetched + 1
    /\ loaderActive' = TRUE
    /\ pc' = "attempt"
    /\ UNCHANGED <<docAccessible, result>>
    /\ UNCHANGED loopVars
    /\ UNCHANGED respVars
    /\ UNCHANGED fsVars
    /\ UNCHANGED utilVars

\* ------------------------------------------------------------ retry loop
\* One pass through the body of the while loop ends in one of three ways:
\* "break" (2xx), "continue" (next iteration) or "throw" (to the outer catch).
Step(kind, count, waits, waited, error) ==
    [kind |-> kind, attemptCount |-> count, delays |-> waits,
     waited |-> waited, error |-> error]

\* The loop condition with an off-by-one (mutant of LoopCondition).
LoopConditionInclusive(count) == count <= MAX_RETRIES

\* while (attemptCount < constants.MAX_RETRIES)
LoopCondition(count) == count < MAX_RETRIES

\* The 429 branch without the wait (mutant of RateLimitBranch).
RateLimitBranchNoWait(count, waits) ==
    Step("continue", count + 1, waits, FALSE, <<>>)

\* The 429 branch without the increment of the counter (mutant of
\* RateLimitBranch).
RateLimitBranchNoCount(count, waits) ==
    Step("continue", count, waits + 1, TRUE, <<>>)

\* if (response.status === 429): wait RETRY_DELAY, attemptCount++, continue.
RateLimitBranch(count, waits) ==
    Step("continue", count + 1, waits + 1, TRUE, <<>>)

\* [500, 502, 503, 504].includes(response.status)
RetryableServerError(status) == status \in {500, 502, 503, 504}

\* The catch block retrying on the last permitted attempt too (mutant of
\* InnerCatch).
InnerCatchRetriesLast(count, waits, error) ==
    IF count < MAX_RETRIES
    THEN Step("continue", count + 1, waits + 1, TRUE, <<>>)
    ELSE Step("throw", count, waits, FALSE, ConnectMsg(error))

\* The catch (fetchError) block of the loop: it receives every error raised
\* in the try block, the ones thrown for 401 and for non-retryable statuses
\* included, and retries unless this was the last permitted attempt.
InnerCatch(count, waits, error) ==
    IF count < MAX_RETRIES - 1
    THEN Step("continue", count + 1, waits + 1, TRUE, <<>>)
    ELSE Step("throw", count, waits, FALSE, ConnectMsg(error))

\* The try block after fetch resolved with a non-2xx status other than 401
\* and 429: read the error body, then retry on a server error and throw on
\* any other status.
ErrorStatusBranch(status, textOk, count, waits) ==
    IF ~textOk THEN InnerCatch(count, waits, BodyReadMsg)
    ELSE IF RetryableServerError(status)
    THEN Step("continue", count + 1, waits + 1, TRUE, <<>>)
    ELSE InnerCatch(count, waits, StatusMsg(status))

\* One iteration of the loop for a given outcome of fetch.
Iteration(outcome, textOk, count, waits) ==
    IF outcome = NetworkError THEN InnerCatch(count, waits, NetworkMsg)
    ELSE IF ResponseOk(outcome) THEN Step("break", count, waits, FALSE, <<>>)
    ELSE IF outcome = 401 THEN InnerCatch(count, waits, AuthFailedMsg)
    ELSE IF outcome = 429 THEN RateLimitBranch(count, waits)
    ELSE ErrorStatusBranch(outcome, textOk, count, waits)

\* The attempt completed with a retryable status (429, or a 5xx whose error
\* body could be read).
RetryableOutcome(outcome, textOk) ==
    outcome = 429 \/ (RetryableServerError(outcome) /\ textOk)

Attempt ==
    /\ pc = "attempt"
    /\ LoopCondition(attemptCount)
    /\ \E outcome \in Outcomes, textOk \in BOOLEAN :
         LET step == Iteration(outcome, textOk, attemptCount, delays) IN
         /\ requests' = requests + 1
         /\ lastStatus' = outcome
         /\ attemptCount' = step.attemptCount
         /\ delays' = step.delays
         /\ waitedAfterLast' = step.waited
         /\ onlyRetryable' = (onlyRetryable /\
                              (ResponseOk(outcome) \/ RetryableOutcome(outcome, textOk)))
         /\ pc' = CASE step.kind = "break" -> "respond"
                    [] step.kind = "continue" -> "attempt"
                    [] OTHER -> "done"
         /\ result' = IF step.kind = "throw" THEN CatchAll(step.error) ELSE result
    /\ UNCHANGED <<docAccessible, challengeFetched, loaderActive>>
    /\ UNCHANGED respVars
    /\ UNCHANGED fsVars
    /\ UNCHANGED utilVars

\* The loop ended because the counter reached MAX_RETRIES: the last response
\* is not ok, so "All API request attempts failed" is thrown.
LoopExhausted ==
    /\ pc = "attempt"
    /\ ~LoopCondition(attemptCount)
    /\ pc' = "done"
    /\ result' = CatchAll(AllFailedMsg)
    /\ UNCHANGED <<docAccessible, challengeFetched, loaderActive>>
    /\ UNCHANGED loopVars
    /\ UNCHANGED respVars
    /\ UNCHANGED fsVars
    /\ UNCHANGED utilVars

\* ------------------------------------------------------- file updates
\* State threaded through processResponseForFileUpdates: the file system,
\* the record of what was done to each spec, the logger calls, and whether
\* an exception is propagating.
Entry(src, spec, outcome) ==
    [src |-> src, fileName |-> spec.fileName, fileContent |-> spec.fileContent,
     outcome |-> outcome]

Prefixes(p) == { SubSeq(p, 1, k) : k \in 0..Len(p) }

\* A write that leaves an existing file alone (mutant of WriteFileSync).
WriteFileSyncKeepExisting(fls, p, content) ==
    [q \in DOMAIN fls \cup {p} |->
        IF q = p /\ (p \notin DOMAIN fls \/ fls[p] = NoFile) THEN content ELSE fls[q]]

\* writeFileSync(filePath, content): the file holds exactly content afterwards.
WriteFileSync(fls, p, content) ==
    [q \in DOMAIN fls \cup {p} |-> IF q = p THEN content ELSE fls[q]]

\* apiUtils.updateFile for a spec taken from source src.  faults names the
\* directories that cannot be created and the files that cannot be written.
UpdateFile(st, spec, src, faults) ==
    IF spec.fileName = UndefinedName
    THEN \* path.join raises a TypeError outside any try block
         [st EXCEPT !.threw = TRUE,
                    !.log = Append(@, Entry(src, spec, "pathTypeError"))]
    ELSE
    LET filePath == PathJoin(Cwd, spec.fileName)
        dirPath == PathDirname(filePath)
        mustCreate == dirPath \notin st.dirs
    IN
    IF mustCreate /\ faults.mkdirFails
    THEN \* mkdirSync raises outside the try block
         [st EXCEPT !.threw = TRUE,
                    !.log = Append(@, Entry(src, spec, "mkdirThrew"))]
    ELSE
    LET dirs2 == IF mustCreate THEN st.dirs \cup Prefixes(dirPath) ELSE st.dirs
        writeOk == /\ spec.fileContent # Undefined
                   /\ filePath \notin dirs2
                   /\ filePath \notin faults.failWrite
    IN
    IF writeOk
    THEN [st EXCEPT !.dirs = dirs2,
                    !.files = WriteFileSync(st.files, filePath, spec.fileContent),
                    !.log = Append(@, Entry(src, spec, "written")),
                    !.logs = @ \cup {<<"info", "Created/Updated file">>}]
    ELSE [st EXCEPT !.dirs = dirs2,
                    !.log = Append(@, Entry(src, spec, "writeFailed")),
                    !.logs = @ \cup {<<"error", "Error creating/updating file">>}]

\* The body of the for loop of each source, for one spec.
SpecStep(st, spec, src, faults) ==
    CASE src = 1 -> UpdateFile(st, spec, src, faults)
      [] src = 2 ->
           IF TruthyName(spec.fileName) /\ TruthyContent(spec.fileContent)
           THEN UpdateFile(st, spec, src, faults)
           ELSE st
      [] OTHER ->
           IF ~TruthyName(spec.fileName)
           THEN [st EXCEPT !.log = Append(@, Entry(src, spec, "missingFileName")),
                           !.logs = @ \cup {<<"error", "missing the fileName property">>}]
           ELSE IF ~TruthyContent(spec.fileContent)
           THEN [st EXCEPT !.log = Append(@, Entry(src, spec, "missingFileContent")),
                           !.logs = @ \cup {<<"error", "missing the fileContent property">>}]
           ELSE UpdateFile(st, spec, src, faults)

\* for (const spec of list): an exception leaves the loop.
RECURSIVE UpdateAll(_, _, _, _)
UpdateAll(list, src, st, faults) ==
    IF list = <<>> \/ st.threw THEN st
    ELSE UpdateAll(Tail(list), src, SpecStep(st, Head(list), src, faults), faults)

\* data.output.match(jsonRegex): the regex matches an array literal whose
\* objects all are {"fileName": non-empty string, "fileContent": non-empty string}.
RegexMatch(kind, specs) ==
    /\ kind \in {"embedded", "array"}
    /\ specs # <<>>
    /\ \A i \in 1..Len(specs) :
         TruthyName(specs[i].fileName) /\ TruthyContent(specs[i].fileContent)

WithLog(st, level, msg) == [st EXCEPT !.logs = @ \cup {<<level, msg>>}]
Caught(st, level, msg) == [WithLog(st, level, msg) EXCEPT !.threw = FALSE]

\* The part of processResponseForFileUpdates that follows the regex stage:
\* JSON.parse(data.output) and the loop over the parsed array.
DirectParse(data, st, faults) ==
    IF data.output = "array"
    THEN LET r == UpdateAll(data.specs, 3, WithLog(st, "info", "Found file(s) from API response"), faults)
         IN IF r.threw
            THEN Caught(r, "debug", "Response is not a valid JSON array")
            ELSE WithLog(r, "info", "Done")
    ELSE IF data.output = "jsonOther"
    THEN st
    ELSE WithLog(st, "debug", "Response is not a valid JSON array")

\* apiUtils.processResponseForFileUpdates
ProcessResponseForFileUpdates(data, st, faults) ==
    IF data.ftu = "list" /\ data.specs # <<>>
    THEN LET r == UpdateAll(data.specs, 1, WithLog(st, "info", "Found file(s) from filesToUpdate"), faults)
         IN IF r.threw
            THEN Caught(r, "error", "Error processing API response for file updates")
            ELSE WithLog(r, "info", "Done")
    ELSE IF TruthyText(data.output)
    THEN IF RegexMatch(data.output, data.specs)
         THEN LET r == UpdateAll(data.specs, 2, WithLog(st, "info", "Found file(s) from JSON in output"), faults)
              IN IF r.threw
                 THEN DirectParse(data, Caught(r, "error", "Failed to parse JSON in output"), faults)
                 ELSE WithLog(r, "info", "Done")
         ELSE DirectParse(data, st, faults)
    ELSE st

\* ------------------------------------------------------- success path
\* The extraction with the two fields in the wrong order (mutant of
\* ExtractContent).
ExtractContentAnswerFirst(data) ==
    IF TruthyText(data.answer) THEN Text("answer", data.answer)
    ELSE IF TruthyText(data.output) THEN Text("output", data.output)
    ELSE EmptyString

\* data.output || data.answer || ""
ExtractContent(data) ==
    IF TruthyText(data.output) THEN Text("output", data.output)
    ELSE IF TruthyText(data.answer) THEN Text("answer", data.answer)
    ELSE EmptyString

\* The response processing with JSON.parse ahead of the raw-response dump, so
\* that a body that does not parse is never dumped (mutant of HandleResponse).
HandleResponseParseFirst ==
    /\ pc = "respond"
    /\ \E body \in Bodies, textOk \in BOOLEAN, rawOk \in BOOLEAN, saveOk \in BOOLEAN :
         LET content == ExtractContent(body) IN
         IF ~textOk
         THEN /\ pc' = "done"
              /\ result' = CatchAll(BodyReadMsg)
              /\ UNCHANGED respVars
         ELSE
         /\ responseBody' = body
         /\ rawResponse' = IF rawOk /\ body.json # "invalid" THEN body ELSE rawResponse
         /\ rawSaveError' = (~rawOk /\ body.json # "invalid")
         /\ IF body.json = "invalid"
            THEN /\ pc' = "done"
                 /\ result' = CatchAll(ParseMsg)
                 /\ UNCHANGED <<responseContent, answerFile>>
            ELSE IF ~TruthyText(content.kind)
            THEN /\ pc' = "done"
                 /\ result' = CatchAll(MissingMsg)
                 /\ responseContent' = content
                 /\ UNCHANGED answerFile
            ELSE /\ pc' = "updates"
                 /\ responseContent' = content
                 /\ answerFile' = IF saveOk THEN content ELSE answerFile
                 /\ UNCHANGED result
    /\ UNCHANGED <<docAccessible, challengeFetched, loaderActive>>
    /\ UNCHANGED loopVars
    /\ UNCHANGED fsVars
    /\ UNCHANGED utilVars

\* response.text(), the raw-response dump, JSON.parse, the extraction of the
\* answer and the saving of the answer file.
HandleResponse ==
    /\ pc = "respond"
    /\ \E body \in Bodies, textOk \in BOOLEAN, rawOk \in BOOLEAN, saveOk \in BOOLEAN :
         LET content == ExtractContent(body) IN
         IF ~textOk
         THEN /\ pc' = "done"
              /\ result' = CatchAll(BodyReadMsg)
              /\ UNCHANGED respVars
         ELSE
         /\ responseBody' = body
         /\ rawResponse' = IF rawOk THEN body ELSE rawResponse
         /\ rawSaveError' = ~rawOk
         /\ IF body.json = "invalid"
            THEN /\ pc' = "done"
                 /\ result' = CatchAll(ParseMsg)
                 /\ UNCHANGED <<responseContent, answerFile>>
            ELSE IF ~TruthyText(content.kind)
            THEN /\ pc' = "done"
                 /\ result' = CatchAll(MissingMsg)
                 /\ responseContent' = content
                 /\ UNCHANGED answerFile
            ELSE /\ pc' = "updates"
                 /\ responseContent' = content
                 /\ answerFile' = IF saveOk THEN content ELSE answerFile
                 /\ UNCHANGED result
    /\ UNCHANGED <<docAccessible, challengeFetched, loaderActive>>
    /\ UNCHANGED loopVars
    /\ UNCHANGED fsVars
    /\ UNCHANGED utilVars

\* formatMarkdownForTerminal, processResponseForFileUpdates(data),
\* loader.stop() and the return of the formatted response.
ProcessUpdates ==
    /\ pc = "updates"
    /\ \E mkdirFails \in BOOLEAN, failWrite \in SUBSET FilePaths :
         LET r == ProcessResponseForFileUpdates(
                      responseBody,
                      [files |-> files, dirs |-> dirs, log |-> updateLog,
                       logs |-> logs, threw |-> FALSE],
                      [mkdirFails |-> mkdirFails, failWrite |-> failWrite])
         IN /\ files' = r.files
            /\ dirs' = r.dirs
            /\ updateLog' = r.log
            /\ logs' = r.logs
    /\ updaterCalled' = TRUE
    /\ loaderActive' = FALSE
    /\ result' = FormatMarkdownForTerminal(responseContent)
    /\ pc' = "done"
    /\ UNCHANGED <<docAccessible, challengeFetched>>
    /\ UNCHANGED loopVars
    /\ UNCHANGED respVars
    /\ UNCHANGED utilVars

Next ==
    \/ Validate
    \/ Authenticate
    \/ Attempt
    \/ LoopExhausted
    \/ HandleResponse
    \/ ProcessUpdates

Spec == Init /\ [][Next]_vars

\* sendQueryToRukh up to the end of its attempt loop: the call as far as the
\* break, the throw or the exhaustion that ends the loop.  The event loop
\* runs every continuation that is ready (an awaited fetch settles, or is
\* aborted by its timeout, and the RETRY_DELAY timer fires), so a pending
\* step of the call is eventually taken.
NextLoop ==
    \/ Validate
    \/ Authenticate
    \/ Attempt
    \/ LoopExhausted

SpecLoop == Init /\ [][NextLoop]_vars /\ WF_vars(NextLoop)

\* ----------------------------------------------------------------- claims
NothingWritten ==
    /\ rawResponse = NoBody
    /\ answerFile = NoAnswerFile
    /\ files = InitFiles
    /\ updateLog = <<>>

NonEmptyKinds == {"prose", "embedded", "array", "jsonOther"}

\* The call did not obtain a usable answer: the document was not accessible
\* or readable, no attempt ended in 2xx, the body was not read or is not
\* JSON, or neither output nor answer holds a non-empty string.
NoUsableAnswer ==
    \/ ~docAccessible
    \/ ~ResponseOk(lastStatus)
    \/ responseBody.json # "object"
    \/ (responseBody.output \notin NonEmptyKinds /\ responseBody.answer \notin NonEmptyKinds)

\* C1: sendQueryToRukh never rejects: it ends only by returning, the value
\* returned is a non-empty string, and whenever no usable answer was
\* obtained that string starts with "Failed to get response from Rukh API".
C1_AlwaysReturnsString ==
    /\ pc \in {"validate", "auth", "attempt", "respond", "updates", "done"}
    /\ pc = "done" =>
         /\ result # <<>>
         /\ \A i \in 1..Len(result) : result[i] \in STRING
         /\ NoUsableAnswer => StartsWith(result, FailPrefix)

C1_Witness ==
    /\ pc = "done"
    /\ responseBody.json = "invalid"
    /\ StartsWith(result, FailPrefix)

\* Statuses the claim calls fatal: 401 and every non-2xx status that is not
\* 429, 500, 502, 503 or 504.
FatalStatus(status) ==
    /\ status \in Statuses
    /\ ~ResponseOk(status)
    /\ status \notin {429, 500, 502, 503, 504}

\* C2: a 401 or other non-retryable status ends the call at that attempt:
\* no delay is waited after it, no further request can follow, and the
\* returned error reports the authentication failure or the status.
C2_FatalStatusEndsCall ==
    FatalStatus(lastStatus) =>
        /\ pc = "done"
        /\ ~waitedAfterLast
        /\ StartsWith(result, FailPrefix)
        /\ lastStatus = 401 => Contains(result, AuthFailedMsg[1])
        /\ lastStatus # 401 => Contains(result, ToString(lastStatus))

\* C3: when every attempt before the first 2xx returned a retryable status,
\* the number of requests is one more than the number of failed attempts,
\* one delay was waited per failed attempt, each failed attempt (429 or 5xx)
\* used one unit of the attempt counter, and the call processes the response.
C3_RetryThenSuccess ==
    (ResponseOk(lastStatus) /\ onlyRetryable) =>
        /\ requests <= MAX_RETRIES
        /\ delays = requests - 1
        /\ attemptCount = requests - 1
        /\ ~waitedAfterLast
        /\ pc \in {"respond", "updates", "done"}

C3_Witness ==
    /\ ResponseOk(lastStatus)
    /\ onlyRetryable
    /\ requests = 3
    /\ delays = 2
    /\ pc = "respond"

\* C4: when every attempt returned a retryable status, the call ends after
\* exactly MAX_RETRIES requests with a failure string containing "All API
\* request attempts failed", and nothing has been written.
C4_Exhaustion ==
    (pc = "done" /\ onlyRetryable /\ requests > 0 /\ ~ResponseOk(lastStatus)) =>
        /\ requests = MAX_RETRIES
        /\ StartsWith(result, FailPrefix)
        /\ Contains(result, "All API request attempts failed")
        /\ NothingWritten

C4_Witness ==
    /\ pc = "done"
    /\ onlyRetryable
    /\ lastStatus = 500
    /\ requests = MAX_RETRIES
    /\ Contains(result, "All API request attempts failed")

\* C5: when the document is not accessible the call ends at validation with
\* an error string: no challenge fetched, no request, no delay, no file.
C5_ValidationIsImmediate ==
    (~docAccessible /\ pc # "validate") =>
        /\ pc = "done"
        /\ StartsWith(result, FailPrefix)
        /\ challengeFetched = 0
        /\ requests = 0
        /\ delays = 0
        /\ NothingWritten

C5_Witness ==
    /\ ~docAccessible
    /\ pc = "done"
    /\ Contains(result, "Cannot access file at path: ")

\* C6: after a 2xx JSON response the answer is the output field when that is
\* a non-empty string, otherwise the answer field; when neither is non-empty
\* the call fails with "Missing content in API response" and saves no answer.
C6_AnswerField ==
    (responseBody.json = "object" /\ pc \in {"updates", "done"}) =>
        IF responseBody.output \in NonEmptyKinds
        THEN /\ responseContent = Text("output", responseBody.output)
             /\ answerFile \in {NoAnswerFile, responseContent}
        ELSE IF responseBody.answer \in NonEmptyKinds
        THEN /\ responseContent = Text("answer", responseBody.answer)
             /\ answerFile \in {NoAnswerFile, responseContent}
        ELSE /\ pc = "done"
             /\ StartsWith(result, FailPrefix)
             /\ Contains(result, "Missing content in API response")
             /\ answerFile = NoAnswerFile

C6_Witness ==
    /\ pc = "updates"
    /\ responseBody.output = "empty"
    /\ responseBody.answer = "prose"
    /\ responseContent = Text("answer", "prose")
    /\ answerFile = responseContent

\* C7: after a 2xx response whose body parses as JSON the parsed object is
\* always handed to processResponseForFileUpdates, whether or not a textual
\* answer was found.
C7_UpdaterAlwaysCalled ==
    (pc = "done" /\ responseBody.json = "object") => updaterCalled

\* The source the claim expects for a response: 1 the filesToUpdate list,
\* 2 an array literal inside the textual answer (output or answer field),
\* 3 the whole textual answer as a JSON array, 0 none.
ClaimedSource(data) ==
    LET text == IF data.output \in NonEmptyKinds THEN data.output
                ELSE IF data.answer \in NonEmptyKinds THEN data.answer
                ELSE "empty"
    IN IF data.ftu = "list" /\ data.specs # <<>> THEN 1
       ELSE IF RegexMatch(text, data.specs) THEN 2
       ELSE IF text = "array" /\ data.specs # <<>> THEN 3
       ELSE 0

SourcesUsed == { updateLog[j].src : j \in 1..Len(updateLog) }

\* C8: the specs of one call come from exactly one source, the first that
\* applies; specs of two sources are never both applied.
C8_OneSourceFirstWins ==
    (pc = "done" /\ updaterCalled) =>
        /\ Cardinality(SourcesUsed) <= 1
        /\ SourcesUsed = (IF ClaimedSource(responseBody) = 0 THEN {}
                          ELSE {ClaimedSource(responseBody)})

\* C9: a failure on one spec affects only that spec: whichever source the
\* list came from, every spec of the list has been processed when the
\* updater returns.
C9_FailuresAreLocal ==
    (pc = "done" /\ updaterCalled /\ updateLog # <<>>) =>
        LET src == updateLog[Len(updateLog)].src
            processed == SelectSeq(updateLog, LAMBDA e : e.src = src)
        IN Len(processed) = Len(responseBody.specs)

LastOccurrence(specs, p) ==
    CHOOSE j \in 1..Len(specs) :
        /\ PathJoin(Cwd, specs[j].fileName) = p
        /\ \A k \in (j + 1)..Len(specs) : PathJoin(Cwd, specs[k].fileName) # p

\* C10: when no spec of the batch fails, the writes are exactly the specs of
\* the list, in list order, one write per spec with no deduplication, and
\* every written file finally holds the content of its last occurrence.
C10_ListOrderLastWins ==
    (/\ pc = "done"
     /\ updateLog # <<>>
     /\ \A j \in 1..Len(updateLog) : updateLog[j].outcome = "written") =>
        LET specs == responseBody.specs IN
        /\ Len(updateLog) = Len(specs)
        /\ \A j \in 1..Len(specs) :
             /\ updateLog[j].fileName = specs[j].fileName
             /\ updateLog[j].fileContent = specs[j].fileContent
        /\ \A p \in FilePaths :
             IF \E j \in 1..Len(specs) : PathJoin(Cwd, specs[j].fileName) = p
             THEN files[p] = specs[LastOccurrence(specs, p)].fileContent
             ELSE files[p] = InitFiles[p]

C10_Witness ==
    /\ pc = "done"
    /\ Len(updateLog) = 2
    /\ updateLog[1].fileName = <<"f1">> /\ updateLog[1].fileContent = "x"
    /\ updateLog[2].fileName = <<"f1">> /\ updateLog[2].fileContent = "y"
    /\ updateLog[1].outcome = "written" /\ updateLog[2].outcome = "written"
    /\ files[PathJoin(Cwd, <<"f1">>)] = "y"

\* No source yields a file list: filesToUpdate is not a non-empty array and
\* the output field is absent, empty, prose or JSON that is not an array.
NoSourceYields(data) ==
    /\ ~(data.ftu = "list" /\ data.specs # <<>>)
    /\ data.output \in {"absent", "empty", "prose", "jsonOther"}

DebugNote == <<"debug", "Response is not a valid JSON array">>

\* C11: whenever none of the three sources yields a file list, the updater
\* writes zero files, logs the debug-level note that the content is not a
\* file update, and logs nothing at error level.
C11_NoSourceDebugNote ==
    (pc = "done" /\ updaterCalled /\ NoSourceYields(responseBody)) =>
        /\ updateLog = <<>>
        /\ files = InitFiles
        /\ DebugNote \in logs
        /\ \A l \in logs : l[1] # "error"

\* The step is an attempt whose fetch raised a network or timeout exception.
NetworkFailureStep == requests' = requests + 1 /\ lastStatus' = NetworkError

\* The attempt being made is the last permitted one.
LastPermittedAttempt == attemptCount = MAX_RETRIES - 1

\* What a network or timeout exception on an attempt leads to.
NetworkFailureHandled ==
    NetworkFailureStep =>
        IF ~LastPermittedAttempt
        THEN /\ delays' = delays + 1
             /\ waitedAfterLast'
             /\ attemptCount' = attemptCount + 1
             /\ pc' = "attempt"
             /\ result' = result
        ELSE /\ delays' = delays
             /\ ~waitedAfterLast'
             /\ pc' = "done"
             /\ StartsWith(result', FailPrefix)
             /\ Contains(result', "<fetch error>")

\* After a network exception that was retried, the loop is entered again.
RetriedOnceMore ==
    (pc = "attempt" /\ lastStatus = NetworkError) =>
        (LoopCondition(attemptCount) /\ requests < MAX_RETRIES)

\* C22: a network or timeout exception on an attempt is followed by the
\* fixed delay and one more attempt, unless it happens on the last permitted
\* attempt (attemptCount = MAX_RETRIES - 1, whatever outcomes led there), in
\* which case the call fails at once without a delay.
C22_NetworkExceptionRetried ==
    []RetriedOnceMore /\ [][NetworkFailureHandled]_vars

C22_Witness ==
    /\ pc = "done"
    /\ lastStatus = NetworkError
    /\ attemptCount = MAX_RETRIES - 1
    /\ requests = MAX_RETRIES
    /\ delays = MAX_RETRIES - 1
    /\ ~waitedAfterLast
    /\ result = CatchAll(ConnectMsg(NetworkMsg))

\* The attempt loop of sendQueryToRukh has ended: in success (a 2xx response
\* is being processed or was processed) or in a returned failure string.
LoopEnded ==
    \/ pc \in {"respond", "updates"}
    \/ pc = "done" /\ result # <<>>

AttemptsBounded ==
    /\ attemptCount \in 0..MAX_RETRIES
    /\ requests \in 0..MAX_RETRIES
    /\ requests <= attemptCount + 1

\* C23: for any sequence of attempt outcomes (2xx, 401, 429, 5xx, other
\* status, exception) the attempt counter stays within 0..MAX_RETRIES, at
\* most MAX_RETRIES requests are sent, and the attempt loop always ends in
\* success or in a failure string.
C23_BoundedAttemptsTerminate ==
    /\ []AttemptsBounded
    /\ (pc = "attempt") ~> LoopEnded

C23_Witness ==
    /\ pc = "done"
    /\ attemptCount = MAX_RETRIES
    /\ requests = MAX_RETRIES
    /\ lastStatus = 429
    /\ ~onlyRetryable
    /\ result = CatchAll(AllFailedMsg)

\* The body of a 2xx response was read as text.
BodyRead == responseBody # NoBody

\* The call ended on a 2xx body that is not valid JSON.
ParseFailed == pc = "done" /\ responseBody.json = "invalid"

\* A parse failure is fatal, and nothing but the debug file is written.
ParseFailureFatal ==
    ParseFailed =>
        /\ result = CatchAll(ParseMsg)
        /\ answerFile = NoAnswerFile
        /\ files = InitFiles
        /\ updateLog = <<>>
        /\ ~updaterCalled

\* C24, as stated: on a 2xx response the body text is written verbatim to
\* the raw-response debug file before JSON parsing is attempted; if the body
\* is not valid JSON the call is fatal ("Failed to parse API response as
\* JSON"), the debug file holds that body, and no answer file and no
\* repository file is written.
C24_DebugFileHoldsBody ==
    /\ BodyRead => rawResponse = responseBody
    /\ ParseFailureFatal

\* C24, amended: the write of the debug file is attempted before JSON
\* parsing, and the file holds the body verbatim unless that write failed,
\* in which case the failure is logged, the file is left as it was and the
\* call goes on to parsing; a body that is not valid JSON is fatal, and no
\* answer file and no repository file is written.
C24_DebugFileHoldsBodyUnlessWriteFailed ==
    /\ BodyRead =>
         IF rawSaveError THEN rawResponse = NoBody ELSE rawResponse = responseBody
    /\ ParseFailureFatal

C24_Witness ==
    /\ ParseFailed
    /\ responseBody = NotJsonBody
    /\ rawResponse = NotJsonBody
    /\ ~rawSaveError
    /\ result = CatchAll(ParseMsg)

\* C30: every TerminalLoader that sendQueryToRukh or fetchSiweChallenge
\* starts has been stopped by the time that call returns, on the success
\* path and on every failure path (fatal status, retry exhaustion, network
\* exception, parse failure, missing content), so no spinner timer is left
\* running after the call.  Stated here for the loader of the request, the
\* one sendQueryToRukh starts before its attempt loop.
C30_LoaderStoppedOnReturn ==
    pc = "done" => ~loaderActive

\* ==================================================== fileUtils.processFile
MAX_FILE_LINES == 500
PREVIEW_LINES == 30

\* Line counts are taken around PREVIEW_LINES and around MAX_FILE_LINES.
Margin == 2

\* A file name is the sequence of its pieces, each "." being a piece of its
\* own: "logo.PNG" is <<"logo", ".", "PNG">>, ".github" is <<".", "github">>.
Dot == "."

\* String.prototype.toLowerCase, piece by piece.
LowerPiece(t) ==
    CASE t = "PNG" -> "png"
      [] t = "Png" -> "png"
      [] t = "JPG" -> "jpg"
      [] t = "Jpeg" -> "jpeg"
      [] t = "GIF" -> "gif"
      [] t = "Bmp" -> "bmp"
      [] t = "ICO" -> "ico"
      [] t = "SVG" -> "svg"
      [] t = "TS" -> "ts"
      [] OTHER -> t

ToLowerCase(s) == [i \in 1..Len(s) |-> LowerPiece(s[i])]

\* path.extname: from the last "." of the name to its end; empty when the
\* name holds no "." or its only "." is its first character.
Extname(name) ==
    LET dots == { i \in 2..Len(name) : name[i] = Dot }
    IN IF dots = {} THEN <<>>
       ELSE LET last == CHOOSE i \in dots : \A j \in dots : j <= i
            IN SubSeq(name, last, Len(name))

imageExtensions ==
    { <<Dot, "png">>, <<Dot, "jpg">>, <<Dot, "jpeg">>, <<Dot, "gif">>,
      <<Dot, "bmp">>, <<Dot, "ico">>, <<Dot, "svg">> }

languageMap ==
    (<<Dot, "ts">> :> "typescript") @@ (<<Dot, "js">> :> "javascript") @@
    (<<Dot, "json">> :> "json") @@ (<<Dot, "md">> :> "markdown") @@
    (<<Dot, "py">> :> "python") @@ (<<Dot, "rb">> :> "ruby") @@
    (<<Dot, "java">> :> "java") @@ (<<Dot, "c">> :> "c") @@
    (<<Dot, "cpp">> :> "cpp") @@ (<<Dot, "cs">> :> "csharp") @@
    (<<Dot, "html">> :> "html") @@ (<<Dot, "css">> :> "css") @@
    (<<Dot, "php">> :> "php") @@ (<<Dot, "go">> :> "go") @@
    (<<Dot, "rs">> :> "rust") @@ (<<Dot, "swift">> :> "swift") @@
    (<<Dot, "kt">> :> "kotlin") @@ (<<Dot, "scala">> :> "scala") @@
    (<<Dot, "sh">> :> "bash") @@ (<<Dot, "yaml">> :> "yaml") @@
    (<<Dot, "yml">> :> "yaml") @@ (<<Dot, "xml">> :> "xml") @@
    (<<Dot, "sql">> :> "sql") @@ (<<Dot, "r">> :> "r") @@
    (<<Dot, "m">> :> "matlab")

\* The extension test without the lower-casing (mutant of isImageFile).
isImageFileCaseSensitive(name) == Extname(name) \in imageExtensions

\* fileUtils.isImageFile
isImageFile(name) == ToLowerCase(Extname(name)) \in imageExtensions

\* fileUtils.getLanguageTag: languageMap[ext] || ""
getLanguageTag(name) ==
    LET ext == ToLowerCase(Extname(name))
    IN IF ext \in DOMAIN languageMap THEN languageMap[ext] ELSE ""

\* The content of a text file: its lines (line i is the number i), joined by
\* "\n", and whether a "\n" follows the last line.  The empty file has no
\* line and no final "\n".
EmptyLine == 0
FileContent(n, nl) == [lines |-> [i \in 1..n |-> i], nl |-> nl]

\* content.split("\n"): a final "\n" yields one more, empty, element, and
\* the empty string yields one empty element.
Split(content) ==
    IF content.lines = <<>> THEN <<EmptyLine>>
    ELSE IF content.nl THEN Append(content.lines, EmptyLine)
    ELSE content.lines

\* Array.prototype.slice(0, n)
SliceFirst(s, n) == SubSeq(s, 1, IF n < Len(s) THEN n ELSE Len(s))

\* Array.prototype.join("\n")
Join(segs) ==
    IF segs = <<EmptyLine>> THEN [lines |-> <<>>, nl |-> FALSE]
    ELSE IF segs[Len(segs)] = EmptyLine
    THEN [lines |-> SubSeq(segs, 1, Len(segs) - 1), nl |-> TRUE]
    ELSE [lines |-> segs, nl |-> FALSE]

\* What one appendFile call adds to the output file.
Chunk(t, v) == [t |-> t, v |-> v]
FileHeading(relativePath) == Chunk("h3", relativePath)
OpenFence(langTag) == Chunk("open", langTag)
CloseFence == Chunk("close", "<fence>")
ImagePlaceholder == Chunk("text", "[This is an image file]")
UnreadablePlaceholder == Chunk("text", "[Unable to read file content]")
CutNotice == Chunk("notice", MAX_FILE_LINES)

\* The truncation test with the ceiling included (mutant of ExceedsCeiling).
ExceedsCeilingInclusive(lines) == Len(lines) >= MAX_FILE_LINES

\* lines.length > constants.MAX_FILE_LINES
ExceedsCeiling(lines) == Len(lines) > MAX_FILE_LINES

\* processFile leaving the entry of an unreadable file without placeholder
\* and closing fence (mutant of processFile).
processFileNoPlaceholder(name, relativePath, content, readable) ==
    LET head == <<FileHeading(relativePath), OpenFence(getLanguageTag(name))>>
    IN IF isImageFile(name)
       THEN [out |-> head \o <<ImagePlaceholder>>, reads |-> 0, failed |-> FALSE]
       ELSE IF ~readable
       THEN [out |-> head, reads |-> 1, failed |-> TRUE]
       ELSE LET lines == Split(content)
            IN IF ExceedsCeiling(lines)
               THEN [out |-> head \o <<Chunk("content",
                                             Join(SliceFirst(lines, PREVIEW_LINES))),
                                       CloseFence, CutNotice>>,
                     reads |-> 1, failed |-> FALSE]
               ELSE [out |-> head \o <<Chunk("content", content), CloseFence>>,
                     reads |-> 1, failed |-> FALSE]

\* fileUtils.processFile: the chunks it appends and the readFile calls it
\* makes.  The output file is taken to be writable.
processFile(name, relativePath, content, readable) ==
    LET head == <<FileHeading(relativePath), OpenFence(getLanguageTag(name))>>
    IN IF isImageFile(name)
       THEN [out |-> head \o <<ImagePlaceholder>>, reads |-> 0, failed |-> FALSE]
       ELSE IF ~readable
       THEN [out |-> head \o <<UnreadablePlaceholder, CloseFence>>,
             reads |-> 1, failed |-> TRUE]
       ELSE LET lines == Split(content)
            IN IF ExceedsCeiling(lines)
               THEN [out |-> head \o <<Chunk("content",
                                             Join(SliceFirst(lines, PREVIEW_LINES))),
                                       CloseFence, CutNotice>>,
                     reads |-> 1, failed |-> FALSE]
               ELSE [out |-> head \o <<Chunk("content", content), CloseFence>>,
                     reads |-> 1, failed |-> FALSE]

\* The extension pieces, in the spellings the model draws names from.
ExtPieces == {"png", "jpg", "jpeg", "gif", "bmp", "ico", "svg",
              "PNG", "Png", "JPG", "Jpeg", "GIF", "Bmp", "ICO", "SVG",
              "ts", "TS", "md", "txt"}

FileNames ==
    { <<"f", Dot, e>> : e \in ExtPieces }
    \cup { <<"f">>, <<Dot, "png">>, <<"f", Dot, "png", Dot, "ts">>,
           <<"f", Dot, "ts", Dot, "PNG">> }

LineCounts ==
    (0..(PREVIEW_LINES + Margin))
    \cup ((MAX_FILE_LINES - Margin)..(MAX_FILE_LINES + Margin))

FileInputs ==
    { [name |-> n, content |-> FileContent(k, nl), readable |-> r] :
        n \in FileNames, k \in LineCounts, nl \in BOOLEAN, r \in BOOLEAN }

\* The variables of sendQueryToRukh while a file utility is modelled.
QueryIdle ==
    /\ pc = "idle"
    /\ docAccessible = TRUE
    /\ challengeFetched = 0
    /\ loaderActive = FALSE
    /\ attemptCount = 0
    /\ requests = 0
    /\ delays = 0
    /\ lastStatus = 0
    /\ onlyRetryable = TRUE
    /\ waitedAfterLast = FALSE
    /\ responseBody = NoBody
    /\ rawResponse = NoBody
    /\ rawSaveError = FALSE
    /\ responseContent = EmptyString
    /\ answerFile = NoAnswerFile
    /\ updaterCalled = FALSE
    /\ files = InitFiles
    /\ dirs = {<<>>, Cwd}
    /\ updateLog = <<>>
    /\ logs = {}
    /\ result = <<>>

InitFile ==
    /\ pfPc = "call"
    /\ pfFile \in { f \in FileInputs : f.content.nl => f.content.lines # <<>> }
    /\ pfOut = <<>>
    /\ pfReads = 0
    /\ QueryIdle /\ RunIdle /\ SetupIdle /\ UqIdle

\* One call processFile(filePath, relativePath, options).
ProcessFileCall ==
    /\ pfPc = "call"
    /\ LET r == processFile(pfFile.name, <<pfFile.name>>, pfFile.content, pfFile.readable)
       IN /\ pfOut' = r.out
          /\ pfReads' = r.reads
    /\ pfPc' = "returned"
    /\ UNCHANGED <<pfFile, queryVars, runVars, setupVars, uqVars>>

NextFile == ProcessFileCall

SpecFile == InitFile /\ [][NextFile]_vars

\* The number of lines of the file given to processFile.
LineCount == Len(pfFile.content.lines)

TextFileProcessed ==
    /\ pfPc = "returned"
    /\ ~isImageFile(pfFile.name)
    /\ pfFile.readable

\* The content is emitted in full, verbatim, inside one fenced block.
EmittedInFull ==
    /\ Len(pfOut) = 4
    /\ pfOut[1].t = "h3" /\ pfOut[2].t = "open"
    /\ pfOut[3] = Chunk("content", pfFile.content)
    /\ pfOut[4] = CloseFence

\* Exactly the first 30 lines, then the closing fence, then the notice
\* citing 500.
EmittedTruncated ==
    /\ Len(pfOut) = 5
    /\ pfOut[1].t = "h3" /\ pfOut[2].t = "open"
    /\ pfOut[3].t = "content"
    /\ pfOut[3].v = [lines |-> [i \in 1..30 |-> i], nl |-> FALSE]
    /\ pfOut[4] = CloseFence
    /\ pfOut[5] = Chunk("notice", 500)

ImageSpellings == {"png", "jpg", "jpeg", "gif", "bmp", "ico", "svg",
                   "PNG", "Png", "JPG", "Jpeg", "GIF", "Bmp", "ICO", "SVG"}

HasImageExtension(name) ==
    /\ Len(name) >= 3
    /\ name[Len(name) - 1] = Dot
    /\ name[Len(name)] \in ImageSpellings

\* C13: for every file whose extension is, case-insensitively, an image
\* extension, processFile writes the fixed placeholder in place of content
\* and never reads the source file.
C13_ImagePlaceholderNoRead ==
    (pfPc = "returned" /\ HasImageExtension(pfFile.name)) =>
        /\ pfReads = 0
        /\ Len(pfOut) >= 3
        /\ pfOut[3] = Chunk("text", "[This is an image file]")
        /\ \A i \in 1..Len(pfOut) : pfOut[i].t # "content"

C13_Witness ==
    /\ pfPc = "returned"
    /\ pfFile.name = <<"f", Dot, "Jpeg">>
    /\ ~pfFile.readable
    /\ pfReads = 0
    /\ pfOut[3] = ImagePlaceholder

\* The closing fences among the chunks processFile appended.
ClosingFences == { i \in 1..Len(pfOut) : pfOut[i] = CloseFence }
OpeningFences == { i \in 1..Len(pfOut) : pfOut[i].t = "open" }

\* C21: in every branch of processFile (image placeholder, full content,
\* truncated content, unable-to-read placeholder) the fence opened after the
\* level-3 heading is closed exactly once before processFile returns.
C21_FenceClosedOnce ==
    pfPc = "returned" =>
        /\ Cardinality(OpeningFences) = 1
        /\ Cardinality(ClosingFences) = 1
        /\ \A i \in OpeningFences, j \in ClosingFences : i < j

\* ==================================== runZhankai: generating the document
\* config.depth of an unlimited run: larger than the depth of any tree.
Infinity == 1000

\* The largest finite config.depth tried.
MaxDepth == 2

Depths == (0..MaxDepth) \cup {Infinity}

EXCLUDED_ITEMS == { <<"LICENSE">>, <<Dot, "git">> }

DEFAULT_IGNORES ==
    { <<"node_modules">>, <<Dot, "git">>, <<"zhankai">>, <<"dist">>, <<"build">> }

FileEntry(name) == [name |-> name, dir |-> FALSE]
DirEntry(name) == [name |-> name, dir |-> TRUE]

\* The repository: for every directory (its path relative to the root, a
\* sequence of names) what readdir lists, in listing order.
Tree ==
    (<<>> :> << FileEntry(<<Dot, "env">>), DirEntry(<<Dot, "github">>),
                FileEntry(<<"LICENSE">>),
                FileEntry(<<"a", Dot, "ts">>), DirEntry(<<"docs">>),
                FileEntry(<<"logo", Dot, "PNG">>), DirEntry(<<"src">>),
                DirEntry(<<"zhankai">>) >>)
    @@ (<< <<Dot, "github">> >> :> << FileEntry(<<"ci", Dot, "yml">>) >>)
    @@ (<< <<"docs">> >> :> << FileEntry(<<"LICENSE">>),
                               FileEntry(<<"g", Dot, "md">>) >>)
    @@ (<< <<"src">> >> :> << FileEntry(<<"b", Dot, "ts">>), DirEntry(<<"lib">>),
                              DirEntry(<<"node_modules">>) >>)
    @@ (<< <<"src">>, <<"lib">> >> :> << FileEntry(<<"c", Dot, "ts">>) >>)
    @@ (<< <<"src">>, <<"node_modules">> >> :> << FileEntry(<<"m", Dot, "js">>) >>)
    @@ (<< <<"zhankai">> >> :> << FileEntry(<<"out", Dot, "md">>) >>)

\* The content of every text file of the repository.
SmallContent == FileContent(2, TRUE)

\* The .gitignore files tried: patterns that are plain names.
PatternSets ==
    { {}, {<<"docs">>}, {<<"lib">>}, {<<"b", Dot, "ts">>}, {<<"docs">>, <<"lib">>} }

GitignoreFiles == [readable : BOOLEAN, patterns : PatternSets]

\* The access faults tried.
ListFaults == { {}, {<< <<"src">> >>} }
StatFaults == { {}, {<< <<"a", Dot, "ts">> >>}, {<< <<"src">>, <<"b", Dot, "ts">> >>} }
ReadFaults == { {}, {<< <<"a", Dot, "ts">> >>} }

\* getIgnoreRules with the patterns of .gitignore left out (mutant of
\* getIgnoreRules).
getIgnoreRulesDefaultsOnly(gi) == DEFAULT_IGNORES

\* fileUtils.getIgnoreRules: the defaults, and the patterns of .gitignore
\* when the file can be read.
getIgnoreRules(gi) ==
    IF gi.readable THEN DEFAULT_IGNORES \cup gi.patterns ELSE DEFAULT_IGNORES

\* ig.ignores(relativePath) for patterns that are plain names: the path is
\* ignored when one of its components bears an ignored name.
ignores(ig, relativePath) == \E i \in 1..Len(relativePath) : relativePath[i] \in ig

\* What a traversal step yields: the chunks appended and the number of
\* logger.error calls.
Emit(chunks) == [out |-> chunks, errs |-> 0]
Failed == [out |-> <<>>, errs |-> 1]
Then(a, b) == [out |-> a.out \o b.out, errs |-> a.errs + b.errs]

DirHeading(relativePath) == Chunk("h2", relativePath)

\* The depth guard with the limit itself excluded (mutant of DepthExceeded).
DepthExceededInclusive(currentDepth, d) == currentDepth >= d

\* currentDepth > options.depth
DepthExceeded(currentDepth, d) == currentDepth > d

RECURSIVE traverseDirectory(_, _, _)
RECURSIVE TraverseEntries(_, _, _, _)

\* The loop of traverseDirectory over the entries of dir.  A failing stat
\* throws to the catch of this call, which ends the loop.
TraverseEntries(dir, entries, currentDepth, ig) ==
    IF entries = <<>> THEN Emit(<<>>)
    ELSE LET file == Head(entries)
             relativePath == Append(dir, file.name)
             rest == TraverseEntries(dir, Tail(entries), currentDepth, ig)
         IN IF file.name \in EXCLUDED_ITEMS \/ ignores(ig, relativePath)
            THEN rest
            ELSE IF relativePath \in statFails
            THEN Failed
            ELSE IF file.dir
            THEN IF ~StartsWith(file.name, Dot)
                 THEN Then(Then(Emit(<<DirHeading(relativePath)>>),
                                traverseDirectory(relativePath, currentDepth + 1, ig)),
                           rest)
                 ELSE rest
            ELSE LET r == processFile(file.name, relativePath, SmallContent,
                                      relativePath \notin readFails)
                 IN Then([out |-> r.out, errs |-> IF r.failed THEN 1 ELSE 0], rest)

\* fileUtils.traverseDirectory
traverseDirectory(dir, currentDepth, ig) ==
    IF DepthExceeded(currentDepth, depth) THEN Emit(<<>>)
    ELSE IF dir \in listFails THEN Failed
    ELSE TraverseEntries(dir, Tree[dir], currentDepth, ig)

\* The pieces of a line of the Structure tree.
Blank == "    "
Bar == "|   "
Corner == "+-- "
Tee == "|-- "

\* depth - 1, with Infinity - 1 = Infinity
Pred(d) == IF d = Infinity THEN Infinity ELSE d - 1

RECURSIVE generateFileStructure(_, _, _, _, _)
RECURSIVE StructureEntries(_, _, _, _, _, _)

\* The loop of generateFileStructure over files.entries(), the listing of
\* dir; index counts from 1, so lastIndex is the length of the listing.
StructureEntries(dir, index, d, prefix, isLast, ig) ==
    LET listing == Tree[dir]
        lastIndex == Len(listing)
    IN IF index > Len(listing) THEN Emit(<<>>)
       ELSE LET file == listing[index]
                relativePath == Append(dir, file.name)
                rest == StructureEntries(dir, index + 1, d, prefix, isLast, ig)
                newPrefix == Append(prefix, IF isLast THEN Blank ELSE Bar)
                connector == IF index = lastIndex THEN Corner ELSE Tee
                line == [prefix |-> prefix, connector |-> connector,
                         name |-> file.name, path |-> relativePath]
            IN IF file.name \in EXCLUDED_ITEMS \/ ignores(ig, relativePath)
               THEN rest
               ELSE Then(Then(Emit(<<line>>),
                              IF file.dir /\ d > 0
                              THEN generateFileStructure(relativePath, Pred(d), newPrefix,
                                                         index = lastIndex, ig)
                              ELSE Emit(<<>>)),
                         rest)

\* fileUtils.generateFileStructure
generateFileStructure(dir, d, prefix, isLast, ig) ==
    IF dir \in listFails THEN Failed
    ELSE StructureEntries(dir, 1, d, prefix, isLast, ig)

Title == Chunk("h1", "<repoName>")
Timestamp == Chunk("timestamp", "<now>")
Structure(lines) == Chunk("structure", lines)

\* fs.appendFile putting the content in front (mutant of appendFile).
appendFilePrepend(doc, chunk) == <<chunk>> \o doc

\* fileUtils.appendFile on a writable output file.
appendFile(doc, chunk) == Append(doc, chunk)

RECURSIVE AppendAll(_, _)
AppendAll(doc, chunks) ==
    IF chunks = <<>> THEN doc
    ELSE AppendAll(appendFile(doc, Head(chunks)), Tail(chunks))

InitRun ==
    /\ runPc = "title"
    /\ depth \in Depths
    /\ gitignoreRules \in GitignoreFiles
    /\ listFails \in ListFaults
    /\ statFails \in StatFaults
    /\ readFails \in ReadFaults
    /\ queryGiven \in BOOLEAN
    /\ document = <<>>
    /\ sentDocument = <<>>
    /\ runErrors = 0
    /\ QueryIdle /\ PfIdle /\ SetupIdle /\ UqIdle

\* generateRepoDocumentation: writeFile(config.output, "# repoName").
WriteTitle ==
    /\ runPc = "title"
    /\ document' = <<Title>>
    /\ runPc' = "traverse"
    /\ UNCHANGED <<treeVars, sentDocument, runErrors, queryVars, pfVars, setupVars, uqVars>>

\* generateRepoDocumentation: traverseDirectory(baseDir, config, 0, ...).
Traverse ==
    /\ runPc = "traverse"
    /\ LET r == traverseDirectory(<<>>, 0, getIgnoreRules(gitignoreRules))
       IN /\ document' = AppendAll(document, r.out)
          /\ runErrors' = runErrors + r.errs
    /\ runPc' = "structure"
    /\ UNCHANGED <<treeVars, sentDocument, queryVars, pfVars, setupVars, uqVars>>

\* generateRepoDocumentation: generateFileStructure and the Structure section.
AppendStructure ==
    /\ runPc = "structure"
    /\ LET r == generateFileStructure(<<>>, depth, <<>>, TRUE, getIgnoreRules(gitignoreRules))
       IN /\ document' = appendFile(document, Structure(r.out))
          /\ runErrors' = runErrors + r.errs
    /\ runPc' = "timestamp"
    /\ UNCHANGED <<treeVars, sentDocument, queryVars, pfVars, setupVars, uqVars>>

\* generateRepoDocumentation: the Timestamp line.
AppendTimestamp ==
    /\ runPc = "timestamp"
    /\ document' = appendFile(document, Timestamp)
    /\ runPc' = "query"
    /\ UNCHANGED <<treeVars, sentDocument, runErrors, queryVars, pfVars, setupVars, uqVars>>

\* runZhankai without a query: the run ends after the document.
Finish ==
    /\ runPc = "query"
    /\ ~queryGiven
    /\ runPc' = "done"
    /\ UNCHANGED <<treeVars, document, sentDocument, runErrors, queryVars, pfVars, setupVars, uqVars>>

\* handleQuery: the uncommitted-changes prompt, then sendQueryToRukh reads
\* config.output and sends it.
HandleQuery ==
    /\ runPc = "query"
    /\ queryGiven
    /\ \E hasChanges \in BOOLEAN, shouldProceed \in BOOLEAN :
         IF hasChanges /\ ~shouldProceed
         THEN UNCHANGED sentDocument
         ELSE sentDocument' = document
    /\ runPc' = "done"
    /\ UNCHANGED <<treeVars, document, runErrors, queryVars, pfVars, setupVars, uqVars>>

NextRun ==
    \/ WriteTitle
    \/ Traverse
    \/ AppendStructure
    \/ AppendTimestamp
    \/ Finish
    \/ HandleQuery

SpecRun == InitRun /\ [][NextRun]_vars

\* ------------------------------------------------ claims on the document
AllPaths ==
    UNION { { Append(d, Tree[d][i].name) : i \in 1..Len(Tree[d]) } : d \in DOMAIN Tree }

IsDirectory(p) == p \in DOMAIN Tree

\* The number of directory levels between the root and the entry at p.
Level(p) == Len(p) - 1

\* The paths of the file entries and of the directory headings of the body.
BodyFiles == { document[i].v : i \in { j \in 1..Len(document) : document[j].t = "h3" } }
BodyDirs == { document[i].v : i \in { j \in 1..Len(document) : document[j].t = "h2" } }
InBody(p) == p \in BodyFiles \cup BodyDirs

\* The paths of the lines of the Structure tree.
StructurePaths ==
    UNION { { document[i].v[k].path : k \in 1..Len(document[i].v) } :
              i \in { j \in 1..Len(document) : document[j].t = "structure" } }

\* The path matches an ignore rule in force or the exclusion list: one of
\* its components bears a default-ignored name, a name of the readable
\* .gitignore, or an excluded name.
MatchesIgnore(p) ==
    \E i \in 1..Len(p) :
        \/ p[i] \in { <<"node_modules">>, <<Dot, "git">>, <<"zhankai">>,
                      <<"dist">>, <<"build">>, <<"LICENSE">> }
        \/ (gitignoreRules.readable /\ p[i] \in gitignoreRules.patterns)

\* The path lies inside a directory whose name starts with ".".
UnderDotDirectory(p) == \E i \in 1..(Len(p) - 1) : p[i][1] = Dot

IsDotDirectory(p) == IsDirectory(p) /\ p[Len(p)][1] = Dot

\* Every readdir and every stat of the run succeeds.
AccessOk == listFails = {} /\ statFails = {}

BodyWritten == runPc \in {"structure", "timestamp", "query", "done"}
StructureWritten == runPc \in {"timestamp", "query", "done"}

\* C14: in a tree that can be read, a file k levels below the root that is
\* not excluded by the ignore rules or by dot-directory skipping is a file
\* entry of the document if and only if k <= depth.
C14_DepthBoundsFiles ==
    (BodyWritten /\ AccessOk) =>
        \A p \in AllPaths :
            (~IsDirectory(p) /\ ~MatchesIgnore(p) /\ ~UnderDotDirectory(p)) =>
                (p \in BodyFiles <=> Level(p) <= depth)

C14_Witness ==
    /\ runPc = "done"
    /\ depth = 1
    /\ AccessOk
    /\ gitignoreRules = [readable |-> TRUE, patterns |-> {}]
    /\ << <<"a", Dot, "ts">> >> \in BodyFiles
    /\ << <<"src">>, <<"b", Dot, "ts">> >> \in BodyFiles
    /\ << <<"src">>, <<"lib">>, <<"c", Dot, "ts">> >> \notin BodyFiles

\* C15: the document holds the heading of a subdirectory only when that
\* subdirectory is within the depth budget, that is when its contents are
\* traversed; with depth 0 it holds no subdirectory heading.
C15_HeadingOnlyWithinDepth ==
    BodyWritten => \A p \in BodyDirs : Len(p) <= depth

C17_StructureMatchesBody ==
    (StructureWritten /\ AccessOk) =>
        /\ StructurePaths = BodyFiles \cup BodyDirs
        /\ \A p \in StructurePaths : ~IsDotDirectory(p) /\ ~UnderDotDirectory(p)

\* The section of the document a chunk belongs to: 1 the title, 2 the
\* directory headings and file entries, 3 the Structure section, 4 the
\* Timestamp line.
Section(chunk) ==
    CASE chunk.t = "h1" -> 1
      [] chunk.t = "structure" -> 3
      [] chunk.t = "timestamp" -> 4
      [] OTHER -> 2

\* The position of the entry named n in the listing of directory d.
ListingIndex(d, n) == CHOOSE i \in 1..Len(Tree[d]) : Tree[d][i].name = n

\* p comes before q in a depth-first walk that follows the listings: a
\* directory before what it holds, and otherwise the order, in their
\* deepest common directory, of the entries they lie under.
ListedBefore(p, q) ==
    /\ p # q
    /\ LET common == CHOOSE k \in 0..Len(p) :
                        /\ k <= Len(q)
                        /\ SubSeq(p, 1, k) = SubSeq(q, 1, k)
                        /\ (k < Len(p) /\ k < Len(q) => p[k + 1] # q[k + 1])
       IN IF common = Len(p) THEN TRUE
          ELSE IF common = Len(q) THEN FALSE
          ELSE ListingIndex(SubSeq(p, 1, common), p[common + 1])
                 < ListingIndex(SubSeq(p, 1, common), q[common + 1])

Headings == { i \in 1..Len(document) : document[i].t \in {"h2", "h3"} }

\* The document holds, in this order, one title, the headings and entries
\* in listing order, at most one Structure section and at most one
\* Timestamp line; and a document that was sent is the finished one.
OrderedDocument ==
    /\ document # <<>> => document[1] = Title
    /\ \A i, j \in 1..Len(document) :
         i < j => /\ Section(document[i]) <= Section(document[j])
                  /\ Section(document[i]) \in {1, 3, 4}
                       => Section(document[i]) < Section(document[j])
    /\ \A i, j \in Headings : i < j => ListedBefore(document[i].v, document[j].v)
    /\ runPc = "title" => document = <<>>
    /\ runPc = "traverse" => document = <<Title>>
    /\ runPc = "structure" => Section(document[Len(document)]) \in {1, 2}
    /\ runPc = "timestamp" => Section(document[Len(document)]) = 3
    /\ runPc \in {"query", "done"} =>
         /\ Section(document[Len(document)]) = 4
         /\ Section(document[Len(document) - 1]) = 3
    /\ sentDocument # <<>> =>
         /\ queryGiven
         /\ runPc = "done"
         /\ sentDocument = document

\* A step only appends to the output file.
AppendsOnly ==
    /\ Len(document') >= Len(document)
    /\ SubSeq(document', 1, Len(document)) = document

\* C20: within one run the output file is written in the order title,
\* directory headings and file entries in listing order, Structure section,
\* Timestamp line, by appending only; and the query is sent only after the
\* Timestamp line, so the document sent is the finished one.
C20_SequentialOrder == []OrderedDocument /\ [][AppendsOnly]_vars

C20_Witness ==
    /\ runPc = "done"
    /\ depth = Infinity
    /\ AccessOk
    /\ sentDocument = document
    /\ Len(document) > 20
    /\ document[Len(document)] = Timestamp
    /\ << <<"src">>, <<"lib">>, <<"c", Dot, "ts">> >> \in BodyFiles

\* The whole document is written: the run is past the Timestamp line.
DocumentFinished == runPc \in {"query", "done"}

\* The path is one the traversal reaches when nothing fails: it matches no
\* ignore rule, is within the depth, and is neither a directory whose name
\* starts with "." nor inside one.
Reached(p) ==
    /\ ~MatchesIgnore(p)
    /\ Level(p) <= depth
    /\ ~IsDotDirectory(p)
    /\ ~UnderDotDirectory(p)

\* The file at p was handed to processFile and its readFile call failed.
ReadFailed(p) ==
    /\ p \in readFails
    /\ ~IsDirectory(p)
    /\ Reached(p)
    /\ ~isImageFile(p[Len(p)])

\* The entry of p in the document is the heading, the opening fence, the
\* unable-to-read placeholder and the closing fence.
PlaceholderEntry(p) ==
    \E i \in 1..(Len(document) - 3) :
        /\ document[i] = FileHeading(p)
        /\ document[i + 1] = OpenFence(getLanguageTag(p[Len(p)]))
        /\ document[i + 2] = Chunk("text", "[Unable to read file content]")
        /\ document[i + 3] = CloseFence

\* q has its heading in the document, after the heading of p.
EmittedAfter(p, q) ==
    \E i, j \in Headings :
        /\ i < j
        /\ document[i].v = p
        /\ document[j].v = q

\* C25: when reading a file's content fails, processFile writes the
\* placeholder "[Unable to read file content]" for that entry and the
\* traversal goes on: every later entry of the same directory and of the
\* rest of the tree is still emitted, and the Structure and Timestamp
\* sections are still written.
C25_ReadFailureIsLocal ==
    (DocumentFinished /\ AccessOk) =>
        \A p \in AllPaths :
            ReadFailed(p) =>
                /\ PlaceholderEntry(p)
                /\ \A q \in AllPaths :
                       (Reached(q) /\ ListedBefore(p, q)) => EmittedAfter(p, q)
                /\ document[Len(document) - 1].t = "structure"
                /\ p \in StructurePaths
                /\ document[Len(document)] = Timestamp
                /\ runErrors = Cardinality(readFails)

C25_Witness ==
    /\ runPc = "done"
    /\ AccessOk
    /\ depth = Infinity
    /\ ReadFailed(<< <<"a", Dot, "ts">> >>)
    /\ PlaceholderEntry(<< <<"a", Dot, "ts">> >>)
    /\ EmittedAfter(<< <<"a", Dot, "ts">> >>, << <<"logo", Dot, "PNG">> >>)
    /\ EmittedAfter(<< <<"a", Dot, "ts">> >>, << <<"src">>, <<"lib">>, <<"c", Dot, "ts">> >>)
    /\ document[Len(document)] = Timestamp

\* The entry at p was reached by the traversal and its stat call failed.
StatFailed(p) ==
    /\ p \in statFails
    /\ Reached(p)
    /\ PathDirname(p) \notin listFails

\* q is an entry of the directory of p that is listed after p.
LaterSibling(p, q) ==
    /\ Len(q) = Len(p)
    /\ PathDirname(q) = PathDirname(p)
    /\ ListedBefore(p, q)

\* C26: an access error on a single directory entry during
\* traverseDirectory (stat failing on one entry) degrades locally: only that
\* entry is lost, and every later entry of the same directory is still
\* processed and emitted.
C26_StatFailureIsLocal ==
    BodyWritten =>
        \A p \in AllPaths :
            StatFailed(p) =>
                /\ ~InBody(p)
                /\ \A q \in AllPaths :
                       (LaterSibling(p, q) /\ Reached(q) /\ q \notin statFails)
                           => InBody(q)

\* The lines of the Structure tree of the document.
StructureLines ==
    UNION { { document[i].v[k] : k \in 1..Len(document[i].v) } :
              i \in { j \in 1..Len(document) : document[j].t = "structure" } }

\* p is the last of the entries of its directory that the tree lists.
LastListedSibling(p) ==
    /\ p \in StructurePaths
    /\ ~\E q \in StructurePaths : LaterSibling(p, q)

\* C27: in the Structure tree, among the entries of a directory that are
\* actually listed (after ignore and exclusion filtering), the last one is
\* drawn with the corner connector and every other one with the tee
\* connector; the lines of a listed directory's subtree carry blank padding
\* in that directory's column when it is the last listed sibling and a
\* vertical continuation bar otherwise.
C27_ConnectorsFollowListedSiblings ==
    StructureWritten =>
        \A line \in StructureLines :
            /\ line.connector = IF LastListedSibling(line.path) THEN Corner ELSE Tee
            /\ Len(line.prefix) = Len(line.path) - 1
            /\ \A k \in 1..Len(line.prefix) :
                   line.prefix[k] =
                       IF LastListedSibling(SubSeq(line.path, 1, k)) THEN Blank ELSE Bar

\* ================================ runZhankai with a query: the whole run
\* One run of zhankai in a fixed repository (depth 1, no .gitignore, no
\* access fault), with or without a query, followed through handleQuery and
\* sendQueryToRukh.
InitAsk ==
    /\ runPc = "title"
    /\ depth = 1
    /\ gitignoreRules = [readable |-> FALSE, patterns |-> {}]
    /\ listFails = {} /\ statFails = {} /\ readFails = {}
    /\ queryGiven \in BOOLEAN
    /\ document = <<>>
    /\ sentDocument = <<>>
    /\ runErrors = 0
    /\ pc = "idle"
    /\ docAccessible \in BOOLEAN
    /\ challengeFetched = 0
    /\ loaderActive = FALSE
    /\ attemptCount = 0
    /\ requests = 0
    /\ delays = 0
    /\ lastStatus = 0
    /\ onlyRetryable = TRUE
    /\ waitedAfterLast = FALSE
    /\ responseBody = NoBody
    /\ rawResponse = NoBody
    /\ rawSaveError = FALSE
    /\ responseContent = EmptyString
    /\ answerFile = NoAnswerFile
    /\ updaterCalled = FALSE
    /\ files = InitFiles
    /\ dirs = {<<>>, Cwd}
    /\ updateLog = <<>>
    /\ logs = {}
    /\ result = <<>>
    /\ PfIdle /\ SetupIdle /\ UqIdle

\* runZhankai calling handleQuery whether or not a query was given (mutant
\* of HandleQueryCall).
HandleQueryCallWithoutQuery ==
    /\ runPc = "query"
    /\ pc = "idle"
    /\ \E hasChanges \in BOOLEAN, shouldProceed \in BOOLEAN :
         IF hasChanges /\ ~shouldProceed
         THEN /\ runPc' = "done"
              /\ UNCHANGED <<pc, sentDocument>>
         ELSE /\ runPc' = "sending"
              /\ pc' = "validate"
              /\ sentDocument' = document
    /\ UNCHANGED <<docAccessible, challengeFetched, loaderActive, result>>
    /\ UNCHANGED loopVars
    /\ UNCHANGED respVars
    /\ UNCHANGED fsVars
    /\ UNCHANGED <<treeVars, document, runErrors, pfVars, setupVars, uqVars>>

\* if (config.query) handleQuery(config): the uncommitted-changes prompt,
\* then, unless the user declined, the call of sendQueryToRukh.
HandleQueryCall ==
    /\ runPc = "query"
    /\ queryGiven
    /\ pc = "idle"
    /\ \E hasChanges \in BOOLEAN, shouldProceed \in BOOLEAN :
         IF hasChanges /\ ~shouldProceed
         THEN /\ runPc' = "done"
              /\ UNCHANGED <<pc, sentDocument>>
         ELSE /\ runPc' = "sending"
              /\ pc' = "validate"
              /\ sentDocument' = document
    /\ UNCHANGED <<docAccessible, challengeFetched, loaderActive, result>>
    /\ UNCHANGED loopVars
    /\ UNCHANGED respVars
    /\ UNCHANGED fsVars
    /\ UNCHANGED <<treeVars, document, runErrors, pfVars, setupVars, uqVars>>

\* handleQuery after sendQueryToRukh has resolved: the run ends.
HandleQueryReturn ==
    /\ runPc = "sending"
    /\ pc = "done"
    /\ runPc' = "done"
    /\ UNCHANGED <<treeVars, document, sentDocument, runErrors, queryVars,
                   pfVars, setupVars, uqVars>>

NextAsk ==
    \/ WriteTitle
    \/ Traverse
    \/ AppendStructure
    \/ AppendTimestamp
    \/ Finish
    \/ HandleQueryCall
    \/ Validate
    \/ Authenticate
    \/ Attempt
    \/ LoopExhausted
    \/ HandleResponse
    \/ ProcessUpdates
    \/ HandleQueryReturn

SpecAsk == InitAsk /\ [][NextAsk]_vars

\* updateFile was executed: a spec was handed to it.
UpdateFileExecuted ==
    \E i \in 1..Len(updateLog) :
        updateLog[i].outcome \in {"written", "writeFailed", "mkdirThrew", "pathTypeError"}

\* A repository file or directory was created or overwritten.
RepositoryModified == files # InitFiles \/ dirs # {<<>>, Cwd}

\* sendQueryToRukh was called: the prompt, if any, was not declined.
QuerySent == pc # "idle" /\ sentDocument = document /\ sentDocument # <<>>

\* C28: updateFile is executed (a repository file is created or
\* overwritten) only in a run where a query was supplied, the user did not
\* decline the uncommitted-changes confirmation, the document was
\* accessible, an attempt returned 2xx, the body parsed as JSON and the
\* textual answer was non-empty; on every other path no repository file is
\* modified.
C28_UpdateOnlyAfterAnswer ==
    (UpdateFileExecuted \/ RepositoryModified \/ updaterCalled) =>
        /\ queryGiven
        /\ QuerySent
        /\ docAccessible
        /\ ResponseOk(lastStatus)
        /\ responseBody.json = "object"
        /\ responseContent.kind \in NonEmptyKinds

C28_Witness ==
    /\ runPc = "done"
    /\ pc = "done"
    /\ queryGiven
    /\ QuerySent
    /\ UpdateFileExecuted
    /\ files[PathJoin(Cwd, <<"d", "f2">>)] = "x"
    /\ PathJoin(Cwd, <<"d">>) \in dirs

\* ==================================================== apiUtils.updateFile
\* The number of updateFile calls followed.
MaxUpdates == 2

\* The fileName values tried: plain and nested names, names with ".."
\* segments, and names starting with "/" (an empty first segment).
UpdateNames ==
    { <<"f1">>, <<"d", "f2">>, <<"d", "..", "f1">>,
      <<"..", "f1">>, <<"..", "..", "etc", "passwd">>, <<"d", "..", "..", "x">>,
      <<"", "etc", "passwd">>, <<"", "f1">> }

InitUpdate ==
    /\ pc = "updateFile"
    /\ docAccessible = TRUE
    /\ challengeFetched = 0
    /\ loaderActive = FALSE
    /\ attemptCount = 0
    /\ requests = 0
    /\ delays = 0
    /\ lastStatus = 0
    /\ onlyRetryable = TRUE
    /\ waitedAfterLast = FALSE
    /\ responseBody = NoBody
    /\ rawResponse = NoBody
    /\ rawSaveError = FALSE
    /\ responseContent = EmptyString
    /\ answerFile = NoAnswerFile
    /\ updaterCalled = FALSE
    /\ files = InitFiles
    /\ dirs = {<<>>, Cwd}
    /\ updateLog = <<>>
    /\ logs = {}
    /\ result = <<>>
    /\ PfIdle /\ RunIdle /\ SetupIdle /\ UqIdle

\* One call updateFile(fileSpec), with or without a failure of mkdirSync and
\* of writeFileSync.
UpdateFileCall ==
    /\ pc = "updateFile"
    /\ Len(updateLog) < MaxUpdates
    /\ \E name \in UpdateNames, content \in {"x", "y"},
          mkdirFails \in BOOLEAN, writeFails \in BOOLEAN :
         LET r == UpdateFile([files |-> files, dirs |-> dirs, log |-> updateLog,
                              logs |-> logs, threw |-> FALSE],
                             MkSpec(name, content), 0,
                             [mkdirFails |-> mkdirFails,
                              failWrite |-> IF writeFails
                                            THEN {PathJoin(Cwd, name)} ELSE {}])
         IN /\ files' = r.files
            /\ dirs' = r.dirs
            /\ updateLog' = r.log
            /\ logs' = r.logs
    /\ UNCHANGED <<pc, docAccessible, challengeFetched, loaderActive, updaterCalled, result>>
    /\ UNCHANGED loopVars
    /\ UNCHANGED respVars
    /\ UNCHANGED utilVars

NextUpdate == UpdateFileCall

SpecUpdate == InitUpdate /\ [][NextUpdate]_vars

\* The path lies inside the current working directory.
InsideCwd(p) == Len(p) > Len(Cwd) /\ SubSeq(p, 1, Len(Cwd)) = Cwd

\* The files created or overwritten, and the directories created.
WrittenPaths ==
    { p \in DOMAIN files : p \notin DOMAIN InitFiles \/ files[p] # InitFiles[p] }
CreatedDirs == dirs \ {<<>>, Cwd}

\* C29: every path that updateFile creates or overwrites lies inside the
\* current working directory, for every fileName an API response can carry
\* (names containing ".." segments or starting with "/" included).
C29_WritesStayInsideCwd ==
    /\ \A p \in WrittenPaths : InsideCwd(p)
    /\ \A d \in CreatedDirs : InsideCwd(d)

\* ============================================ fileUtils.getUniqueFilename
\* A path string is the sequence of its pieces, "/" and "." being pieces of
\* their own: "zhankai/out.md" is <<"zhankai", "/", "out", ".", "md">>.
Slash == "/"

\* The largest number of numbered files that exist beside the base file.
MaxNumbered == 2

\* The position of the last "/" of the path, 0 when it has none.
LastSlash(p) ==
    LET ss == { i \in 1..Len(p) : p[i] = Slash }
    IN IF ss = {} THEN 0 ELSE CHOOSE i \in ss : \A j \in ss : j <= i

\* path.basename and path.dirname
Basename(p) == SubSeq(p, LastSlash(p) + 1, Len(p))
Dirname(p) == SubSeq(p, 1, LastSlash(p) - 1)

\* path.extname of a path: the extension of its last component.
ExtnameOfPath(p) == Extname(Basename(p))

\* s.slice(0, -n): -0 is 0, so that with n = 0 the result is the empty
\* string.
SliceOffEnd(s, n) == IF n = 0 THEN <<>> ELSE SubSeq(s, 1, Len(s) - n)

\* The template string `${nameWithoutExt}(${counter})${ext}`.
Numbered(nameWithoutExt, counter, ext) ==
    nameWithoutExt \o <<"(", ToString(counter), ")">> \o ext

BaseFilenames ==
    { <<"zhankai", Slash, "out", Dot, "md">>,
      <<"zhankai", Slash, "out">>,
      <<"zhankai", Slash, Dot, "env">>,
      <<"zhankai", Slash, "a", Dot, "tar", Dot, "gz">> }

\* The names a call can probe: the base, its numbered variants, and the
\* numbered variants of the empty stem.
Candidates(base) ==
    {base}
    \cup { Numbered(SubSeq(base, 1, Len(base) - Len(ExtnameOfPath(base))), k,
                     ExtnameOfPath(base)) : k \in 1..MaxNumbered }
    \cup { Numbered(<<>>, k, ExtnameOfPath(base)) : k \in 1..MaxNumbered }

InitUnique ==
    /\ uqPc = "loop"
    /\ uqBase \in BaseFilenames
    /\ uqExisting \in SUBSET Candidates(uqBase)
    /\ uqFilename = uqBase
    /\ uqCounter = 1
    /\ QueryIdle /\ PfIdle /\ RunIdle /\ SetupIdle

\* One pass of the loop in which fs.access(filename) succeeds.
ProbeExists ==
    /\ uqPc = "loop"
    /\ uqFilename \in uqExisting
    /\ LET ext == ExtnameOfPath(uqBase)
           nameWithoutExt == SliceOffEnd(uqBase, Len(ext))
       IN uqFilename' = Numbered(nameWithoutExt, uqCounter, ext)
    /\ uqCounter' = uqCounter + 1
    /\ UNCHANGED <<uqPc, uqBase, uqExisting, queryVars, pfVars, runVars, setupVars>>

\* The pass in which fs.access(filename) throws: return filename.
ProbeFree ==
    /\ uqPc = "loop"
    /\ uqFilename \notin uqExisting
    /\ uqPc' = "returned"
    /\ UNCHANGED <<uqBase, uqExisting, uqFilename, uqCounter, queryVars, pfVars, runVars, setupVars>>

NextUnique == ProbeExists \/ ProbeFree

SpecUnique == InitUnique /\ [][NextUnique]_vars

\* p written as stem + ext, ext being its final extension, possibly empty.
StemOf(p) == SubSeq(p, 1, Len(p) - Len(ExtnameOfPath(p)))
Variant(p, k) == StemOf(p) \o <<"(", ToString(k), ")">> \o ExtnameOfPath(p)

\* C18: getUniqueFilename(p) returns p when no file exists at p, and
\* otherwise stem(k)ext for the least k >= 1 at which no file exists; the
\* result names no existing file and lies in the directory of p.
C18_LeastFreeVariant ==
    uqPc = "returned" =>
        /\ uqFilename \notin uqExisting
        /\ Dirname(uqFilename) = Dirname(uqBase)
        /\ IF uqBase \notin uqExisting THEN uqFilename = uqBase
           ELSE \E k \in 1..(MaxNumbered + 1) :
                  /\ uqFilename = Variant(uqBase, k)
                  /\ \A j \in 1..(k - 1) : Variant(uqBase, j) \in uqExisting

\* ================================ setupOutputDirectory and addToGitignore
\* The text of .gitignore is the sequence of its pieces, the newline, the
\* blank and "/" being pieces of their own.
NewLine == "\n"
Space == " "

\* The largest number of lines of the initial .gitignore, and of calls.
MaxLines == 2
MaxCalls == 2

ZHANKAI_DIR == <<"zhankai">>

\* text.split("\n")
RECURSIVE SplitText(_, _)
SplitText(text, line) ==
    IF text = <<>> THEN <<line>>
    ELSE IF Head(text) = NewLine THEN <<line>> \o SplitText(Tail(text), <<>>)
    ELSE SplitText(Tail(text), Append(line, Head(text)))

\* String.prototype.trim
RECURSIVE Trim(_)
Trim(line) ==
    IF line = <<>> THEN line
    ELSE IF Head(line) = Space THEN Trim(Tail(line))
    ELSE IF line[Len(line)] = Space THEN Trim(SubSeq(line, 1, Len(line) - 1))
    ELSE line

\* gitUtils.addToGitignore: the .gitignore it leaves.  A file that cannot be
\* read counts as empty; the write is taken to succeed.
addToGitignore(gi, pattern) ==
    LET currentContent == IF gi.exists THEN gi.text ELSE <<>>
        formattedPattern == IF StartsWith(pattern, Slash) THEN pattern ELSE <<Slash>> \o pattern
        lines == SplitText(currentContent, <<>>)
    IN IF \E i \in 1..Len(lines) :
            Trim(lines[i]) = formattedPattern \/ Trim(lines[i]) = pattern
       THEN gi
       ELSE [exists |-> TRUE,
             text |-> IF currentContent # <<>> /\ currentContent[Len(currentContent)] # NewLine
                      THEN currentContent \o <<NewLine>> \o formattedPattern \o <<NewLine>>
                      ELSE currentContent \o formattedPattern \o <<NewLine>>]

\* The lines an initial .gitignore is made of.
LinePool ==
    { <<"node_modules">>, <<Slash, "zhankai">>, <<"zhankai">>,
      <<"zhankai", Space>>, <<"zhankai", Slash>> }

RECURSIVE JoinText(_)
JoinText(lines) ==
    IF lines = <<>> THEN <<>>
    ELSE IF Len(lines) = 1 THEN lines[1]
    ELSE lines[1] \o <<NewLine>> \o JoinText(Tail(lines))

InitTexts ==
    { JoinText(ls) \o end :
        ls \in UNION { [1..n -> LinePool] : n \in 0..MaxLines },
        end \in {<<>>, <<NewLine>>} }

InitSetup ==
    /\ zhankaiExists \in BOOLEAN
    /\ gitignore \in {NoGitignore} \cup { [exists |-> TRUE, text |-> t] : t \in InitTexts }
    /\ gitignoreLog = <<>>
    /\ QueryIdle /\ PfIdle /\ RunIdle /\ UqIdle

Logged(op, before, after) == [op |-> op, before |-> before, after |-> after]

\* setupOutputDirectory of one run.
SetupOutputDirectory ==
    /\ Len(gitignoreLog) < MaxCalls
    /\ IF ~zhankaiExists
       THEN /\ zhankaiExists' = TRUE
            /\ gitignore' = addToGitignore(gitignore, ZHANKAI_DIR)
       ELSE UNCHANGED <<zhankaiExists, gitignore>>
    /\ gitignoreLog' = Append(gitignoreLog, Logged("run", gitignore, gitignore'))
    /\ UNCHANGED <<queryVars, pfVars, runVars, uqVars>>

\* A call of gitUtils.addToGitignore(repoDir, constants.ZHANKAI_DIR), the
\* only pattern the program passes.
AddToGitignore ==
    /\ Len(gitignoreLog) < MaxCalls
    /\ gitignore' = addToGitignore(gitignore, ZHANKAI_DIR)
    /\ gitignoreLog' = Append(gitignoreLog, Logged("add", gitignore, gitignore'))
    /\ UNCHANGED <<zhankaiExists, queryVars, pfVars, runVars, uqVars>>

NextSetup == SetupOutputDirectory \/ AddToGitignore

SpecSetup == InitSetup /\ [][NextSetup]_vars

\* The number of lines of the text that are the pattern /zhankai or zhankai.
RECURSIVE CountPattern(_)
CountPattern(lines) ==
    IF lines = <<>> THEN 0
    ELSE (IF Trim(Head(lines)) \in {<<"zhankai">>, <<Slash, "zhankai">>} THEN 1 ELSE 0)
         + CountPattern(Tail(lines))

Occurrences(gi) == IF gi.exists THEN CountPattern(SplitText(gi.text, <<>>)) ELSE 0

\* C19: after every run the zhankai directory exists and .gitignore holds
\* the pattern, whether or not the directory existed before; every call
\* keeps the previous text of .gitignore as a prefix, and leaves the pattern
\* exactly once unless it was there more often before.
C19_RegisteredAppendOnlyOnce ==
    \A i \in 1..Len(gitignoreLog) :
        LET e == gitignoreLog[i] IN
        /\ e.op = "run" => (zhankaiExists /\ Occurrences(e.after) >= 1)
        /\ e.before.exists =>
             /\ e.after.exists
             /\ Len(e.after.text) >= Len(e.before.text)
             /\ SubSeq(e.after.text, 1, Len(e.before.text)) = e.before.text
        /\ e.op = "add" =>
             Occurrences(e.after) = (IF Occurrences(e.before) = 0 THEN 1 ELSE Occurrences(e.before))
        /\ Occurrences(e.after) >= Occurrences(e.before)
        /\ Occurrences(e.before) >= 1 => e.after = e.before

====
